---- MODULE Spec2Model ----
(***************************************************************************)
(* Model of expandable_array::ExpandableArray<T, Alloc>                    *)
(* (src/expandable_array.h).                                               *)
(*                                                                         *)
(* The heap is a sequence of buffers; the pointer returned by the k-th     *)
(* allocate call is the index k, and the null pointer is 0.  Every slot of *)
(* a buffer carries the lifetime state of the T object in it:              *)
(*   "raw"   storage in which no object was ever constructed,              *)
(*   "live"  a constructed object with value val,                          *)
(*   "dead"  an object that was destroyed once,                            *)
(*   "dead2" a slot on which destroy ran although no object was alive.     *)
(* Slot positions are 1-based: position i is the address m_array.first+i-1.*)
(* A container is the triple of its members (m_allocator, m_array,         *)
(* m_capacity); m_array is kept as first and size = second - first.        *)
(***************************************************************************)
EXTENDS Integers, Sequences, FiniteSets, TLC

\* ---- bounds of the model
MaxAllocs == 3
MaxLen == 2
MaxAssigns == 1

\* ---- program constant
default_capacity == 4

Containers == {"a", "b"}
Allocators == {1}
Values == 1..MaxLen
DefaultValue == 0
AllValues == Values \cup {DefaultValue}
Counts == 0..MaxLen
\* the capacities reserve is asked for: below, at and above any size()
Capacities == 0..(MaxLen + 1)
\* the input ranges and literal lists: 1, 2, ..., n, so that the position of an
\* element shows in its value
Ranges == {[i \in 1..n |-> i] : n \in Counts}
nullptr == 0

\* con[c]   the members of container c and whether it is constructed
\* heap     the buffers allocate has returned, in the order of the calls
\* calls    the allocator and construction calls of the operation that ran last
\* lastOp   the operation that ran last
\* halted   the program was stopped by an undefined operation
\* assigned how many assignments have run
\* copyOf   copyOf[c] is the container c was copy-constructed from, or "none"
VARIABLES con, heap, calls, lastOp, halted, assigned, copyOf

vars == <<con, heap, calls, lastOp, halted, assigned, copyOf>>

\* ---- slots and their lifetime
RawSlot == [st |-> "raw", val |-> 0]
DeadSlot == [st |-> "dead", val |-> 0]
Dead2Slot == [st |-> "dead2", val |-> 0]
LiveSlot(v) == [st |-> "live", val |-> v]

Min(x, y) == IF x < y THEN x ELSE y

\* ---- the calls made on the allocator and the std:: algorithms that
\* ---- construct in place; n is a slot count (allocate, deallocate) or a
\* ---- slot position (construct, destroy)
Call(what, al, p, n) == [call |-> what, al |-> al, p |-> p, n |-> n]

\* allocator_traits::allocate(al, n): a fresh buffer of n raw slots
allocate(h, al, n) ==
    Append(h, [n |-> n, by |-> al, frees |-> 0, dn |-> 0, leaked |-> 0, twice |-> 0,
               slots |-> [i \in 1..n |-> RawSlot]])

CountSlots(slots, st) == Cardinality({i \in DOMAIN slots : slots[i].st = st})

\* allocator_traits::deallocate(al, p, n): the storage is gone; what stays of
\* the buffer is the n it was released with, how many objects were still
\* alive in it (leaked) and on how many slots destroy ran without an object
\* (twice)
deallocate(h, p, n) ==
    IF p = nullptr THEN h
    ELSE [h EXCEPT ![p].frees = Min(@ + 1, 2),
                   ![p].dn = n,
                   ![p].leaked = CountSlots(h[p].slots, "live"),
                   ![p].twice = CountSlots(h[p].slots, "dead2"),
                   ![p].slots = <<>>]

\* al.deallocate(p, n) is defined only for a p that allocate returned, on an
\* allocator equal to al, and that is still allocated, with the n that
\* allocate was given
DeallocateDefined(h, al, p, n) ==
    p # nullptr /\ h[p].frees = 0 /\ h[p].n = n /\ h[p].by = al

\* What an undefined call can do to the run: a build either goes on with the
\* caller or stops the program there.  A stopped program runs no further
\* operation.
MayStop(undefined) == halted' \in (IF undefined THEN BOOLEAN ELSE {FALSE})

\* allocator_traits::destroy(al, p) on one slot
DestroySlot(s) == IF s.st = "live" THEN DeadSlot ELSE Dead2Slot

\* destroy_range(first + lo, first + hi): slots lo+1 .. hi in forward order
destroy_range(h, p, lo, hi) ==
    IF p = nullptr \/ hi <= lo THEN h
    ELSE [h EXCEPT ![p].slots =
            [i \in DOMAIN @ |-> IF i > lo /\ i <= hi THEN DestroySlot(@[i]) ELSE @[i]]]

DestroyCalls(al, p, lo, hi) ==
    [i \in 1..(IF hi > lo THEN hi - lo ELSE 0) |-> Call("destroy", al, p, lo + i)]

\* std::uninitialized_fill / uninitialized_fill_n: count copies of v
\* constructed in slots lo+1 .. lo+count
uninitialized_fill(h, p, lo, count, v) ==
    IF count <= 0 THEN h
    ELSE [h EXCEPT ![p].slots =
            [i \in DOMAIN @ |-> IF i > lo /\ i <= lo + count THEN LiveSlot(v) ELSE @[i]]]

\* std::uninitialized_copy / uninitialized_copy_n: vals constructed in
\* slots 1 .. Len(vals)
uninitialized_copy(h, p, vals) ==
    IF Len(vals) = 0 THEN h
    ELSE [h EXCEPT ![p].slots =
            [i \in DOMAIN @ |-> IF i <= Len(vals) THEN LiveSlot(vals[i]) ELSE @[i]]]

ConstructCalls(p, lo, count) ==
    [i \in 1..(IF count > 0 THEN count ELSE 0) |-> Call("construct", 0, p, lo + i)]

\* the elements an algorithm reads from slots 1 .. count of buffer p, and the
\* elements std::copy assigns to in slots 1 .. count of buffer p
ReadCalls(p, count) ==
    [i \in 1..(IF p # nullptr /\ count > 0 THEN count ELSE 0) |-> Call("read", 0, p, i)]

AssignCalls(p, count) ==
    [i \in 1..(IF p # nullptr /\ count > 0 THEN count ELSE 0) |-> Call("assign", 0, p, i)]

\* The values a read of the first k slots of buffer p can give.  Reading an
\* object that is not alive is undefined: any value may come out.
ReadChoices(h, p, k) ==
    IF p = nullptr \/ k = 0 THEN {<<>>}
    ELSE {s \in [1..k -> AllValues] :
            \A i \in 1..k : h[p].slots[i].st = "live" => s[i] = h[p].slots[i].val}

\* ---- containers
Unborn == [st |-> "unborn", al |-> 0, first |-> nullptr, size |-> 0, cap |-> 0]
Gone == [st |-> "destroyed", al |-> 0, first |-> nullptr, size |-> 0, cap |-> 0]

Alive(c) == con[c].st = "alive"

\* size(): m_array.second - m_array.first
size(c) == con[c].size

\* the operation that ran last: its name, the container it ran on, the other
\* container it took (or c), its count and value arguments, and size() of c
\* when it started
Op(name, c, src, n, v) ==
    [op |-> name, c |-> c, src |-> src, n |-> n, v |-> v, s |-> size(c)]

CanAllocate == Len(heap) < MaxAllocs

Init ==
    /\ con = [c \in Containers |-> Unborn]
    /\ heap = <<>>
    /\ calls = <<>>
    /\ lastOp = [op |-> "none", c |-> "a", src |-> "a", n |-> 0, v |-> 0, s |-> 0]
    /\ halted = FALSE
    /\ assigned = 0
    /\ copyOf = [c \in Containers |-> "none"]

\* ---- constructors

\* explicit ExpandableArray(const allocator_type&)
DefaultConstruct(c, al) ==
    /\ ~halted /\ con[c].st = "unborn" /\ CanAllocate
    /\ LET p == Len(heap) + 1 IN
        /\ heap' = allocate(heap, al, default_capacity)
        /\ con' = [con EXCEPT ![c] = [st |-> "alive", al |-> al, first |-> p,
                                      size |-> 0, cap |-> default_capacity]]
        /\ calls' = <<Call("allocate", al, p, default_capacity)>>
    /\ lastOp' = Op("default", c, c, 0, 0)
    /\ UNCHANGED <<halted, assigned, copyOf>>

\* a sized constructor that records the count as the capacity
SizedCapacitySingle(n) == n

\* the capacity the sized constructor records: size * 2
SizedCapacity(n) == n * 2

\* explicit ExpandableArray(size_type, const_reference, const allocator_type&)
SizedConstruct(c, n, v, al) ==
    /\ ~halted /\ con[c].st = "unborn" /\ CanAllocate
    /\ LET p == Len(heap) + 1 IN
        /\ heap' = uninitialized_fill(allocate(heap, al, n * 2), p, 0, n, v)
        /\ con' = [con EXCEPT ![c] = [st |-> "alive", al |-> al, first |-> p,
                                      size |-> n, cap |-> SizedCapacity(n)]]
        /\ calls' = <<Call("allocate", al, p, n * 2)>> \o ConstructCalls(p, 0, n)
    /\ lastOp' = Op("sized", c, c, n, v)
    /\ UNCHANGED <<halted, assigned, copyOf>>

\* the capacity the range constructor records: std::distance(begin, end)
RangeCapacity(d) == d

\* ExpandableArray(InIter, InIter, const allocator_type&): the state of the
\* new container and of the heap
RangeCtor(h, vals, al) ==
    LET p == Len(h) + 1
        d == Len(vals)
    IN [cr |-> [st |-> "alive", al |-> al, first |-> p, size |-> d,
                cap |-> RangeCapacity(d)],
        h |-> uninitialized_copy(allocate(h, al, d * 2), p, vals),
        calls |-> <<Call("allocate", al, p, d * 2)>> \o ConstructCalls(p, 0, d)]

RangeConstruct(c, vals, al) ==
    /\ ~halted /\ con[c].st = "unborn" /\ CanAllocate
    /\ LET r == RangeCtor(heap, vals, al) IN
        /\ heap' = r.h
        /\ con' = [con EXCEPT ![c] = r.cr]
        /\ calls' = r.calls
    /\ lastOp' = Op("range", c, c, Len(vals), 0)
    /\ UNCHANGED <<halted, assigned, copyOf>>

\* a copy constructor that copies the members, sharing right's buffer
CopyConstructShared(c, right) ==
    /\ ~halted /\ con[c].st = "unborn" /\ Alive(right) /\ c # right /\ CanAllocate
    /\ con' = [con EXCEPT ![c] = con[right]]
    /\ calls' = <<>>
    /\ lastOp' = Op("copy", c, right, con[right].size, 0)
    /\ copyOf' = [copyOf EXCEPT ![c] = right]
    /\ UNCHANGED <<heap, halted, assigned>>

\* ExpandableArray(const ExpandableArray&): the range constructor over
\* [right.first, right.second) with right's allocator
CopyConstruct(c, right) ==
    /\ ~halted /\ con[c].st = "unborn" /\ Alive(right) /\ c # right /\ CanAllocate
    /\ \E vals \in ReadChoices(heap, con[right].first, con[right].size) :
         LET r == RangeCtor(heap, vals, con[right].al) IN
            /\ heap' = r.h
            /\ con' = [con EXCEPT ![c] = r.cr]
            /\ calls' = <<Head(r.calls)>>
                          \o ReadCalls(con[right].first, con[right].size)
                          \o Tail(r.calls)
    /\ lastOp' = Op("copy", c, right, con[right].size, 0)
    /\ copyOf' = [copyOf EXCEPT ![c] = right]
    /\ UNCHANGED <<halted, assigned>>

\* a move that forgets to null the source's pointers
MovedFromKeepsArray(cr) == cr

\* what a move leaves of right: right.m_array = {nullptr, nullptr}
MovedFrom(cr) == [cr EXCEPT !.first = nullptr, !.size = 0]

\* ExpandableArray(ExpandableArray&&)
MoveConstruct(c, right) ==
    /\ ~halted /\ con[c].st = "unborn" /\ Alive(right) /\ c # right
    /\ con' = [con EXCEPT ![c] = con[right], ![right] = MovedFrom(con[right])]
    /\ calls' = <<>>
    /\ lastOp' = Op("move", c, right, con[right].size, 0)
    /\ UNCHANGED <<heap, halted, assigned, copyOf>>

\* ExpandableArray(std::initializer_list<value_type>, const allocator_type&)
ListConstruct(c, vals, al) ==
    /\ ~halted /\ con[c].st = "unborn" /\ CanAllocate
    /\ LET p == Len(heap) + 1
           d == Len(vals)
       IN
        /\ heap' = uninitialized_copy(allocate(heap, al, d * 2), p, vals)
        /\ con' = [con EXCEPT ![c] = [st |-> "alive", al |-> al, first |-> p,
                                      size |-> d, cap |-> d * 2]]
        /\ calls' = <<Call("allocate", al, p, d * 2)>> \o ConstructCalls(p, 0, d)
    /\ lastOp' = Op("list", c, c, Len(vals), 0)
    /\ UNCHANGED <<halted, assigned, copyOf>>

\* ~ExpandableArray()
Destroy(c) ==
    /\ ~halted /\ Alive(c)
    /\ LET cr == con[c] IN
        /\ heap' = deallocate(destroy_range(heap, cr.first, 0, cr.size), cr.first, cr.cap)
        /\ calls' = DestroyCalls(cr.al, cr.first, 0, cr.size)
                      \o <<Call("deallocate", cr.al, cr.first, cr.cap)>>
    /\ con' = [con EXCEPT ![c] = Gone]
    /\ lastOp' = Op("destroy", c, c, 0, 0)
    /\ MayStop(~DeallocateDefined(heap, con[c].al, con[c].first, con[c].cap))
    /\ UNCHANGED <<assigned, copyOf>>

\* ---- reserve, resize

\* a reserve whose copy stops one element short
ReserveCopiesOneLess(sz, new_capacity) ==
    IF Min(sz, new_capacity) > 0 THEN Min(sz, new_capacity) - 1 ELSE 0

\* how many elements reserve copies into the new buffer:
\* min(m_array.second - m_array.first, new_capacity)
ReserveCopyCount(sz, new_capacity) == Min(sz, new_capacity)

\* a reserve that releases the old buffer without destroying its elements
ReserveLeaksOld(cr, h, new_capacity, vals) ==
    LET p == Len(h) + 1
        h1 == allocate(h, cr.al, new_capacity)
        h2 == uninitialized_copy(h1, p, vals)
        h4 == deallocate(h2, cr.first, cr.cap)
    IN [cr |-> [cr EXCEPT !.cap = new_capacity, !.first = p, !.size = Len(vals)],
        h |-> h4,
        ub |-> ~DeallocateDefined(h2, cr.al, cr.first, cr.cap),
        calls |-> <<Call("allocate", cr.al, p, new_capacity)>>
                    \o ReadCalls(cr.first, Len(vals))
                    \o ConstructCalls(p, 0, Len(vals))
                    \o <<Call("deallocate", cr.al, cr.first, cr.cap)>>]

\* a reserve that releases the old buffer before it destroys its elements
ReserveFreesFirst(cr, h, new_capacity, vals) ==
    LET p == Len(h) + 1
        h1 == allocate(h, cr.al, new_capacity)
        h2 == uninitialized_copy(h1, p, vals)
        h3 == deallocate(h2, cr.first, cr.cap)
    IN [cr |-> [cr EXCEPT !.cap = new_capacity, !.first = p, !.size = Len(vals)],
        h |-> h3,
        ub |-> TRUE,
        calls |-> <<Call("allocate", cr.al, p, new_capacity)>>
                    \o ReadCalls(cr.first, Len(vals))
                    \o ConstructCalls(p, 0, Len(vals))
                    \o <<Call("deallocate", cr.al, cr.first, cr.cap)>>
                    \o DestroyCalls(cr.al, cr.first, 0, cr.size)]

\* void reserve(size_type new_capacity), on container state cr and heap h;
\* vals are the values read from the old buffer
Reserve(cr, h, new_capacity, vals) ==
    LET p == Len(h) + 1
        h1 == allocate(h, cr.al, new_capacity)
        h2 == uninitialized_copy(h1, p, vals)
        h3 == destroy_range(h2, cr.first, 0, cr.size)
        h4 == deallocate(h3, cr.first, cr.cap)
    IN [cr |-> [cr EXCEPT !.cap = new_capacity, !.first = p, !.size = Len(vals)],
        h |-> h4,
        ub |-> ~DeallocateDefined(h3, cr.al, cr.first, cr.cap),
        calls |-> <<Call("allocate", cr.al, p, new_capacity)>>
                    \o ReadCalls(cr.first, Len(vals))
                    \o ConstructCalls(p, 0, Len(vals))
                    \o DestroyCalls(cr.al, cr.first, 0, cr.size)
                    \o <<Call("deallocate", cr.al, cr.first, cr.cap)>>]

ReserveReads(cr, h, new_capacity) ==
    ReadChoices(h, cr.first, ReserveCopyCount(cr.size, new_capacity))

\* void resize(size_type new_size, const_reference value); size() in its
\* body is the size reserve left
Resize(cr, h, new_size, value, vals) ==
    LET r == Reserve(cr, h, new_size * 2, vals)
        p == r.cr.first
        sz == r.cr.size
    IN IF new_size > sz
       THEN [cr |-> r.cr, ub |-> r.ub,
             h |-> uninitialized_fill(r.h, p, sz, new_size - sz, value),
             calls |-> r.calls \o ConstructCalls(p, sz, new_size - sz)]
       ELSE [cr |-> r.cr, ub |-> r.ub,
             h |-> destroy_range(r.h, p, sz - new_size, sz),
             calls |-> r.calls \o DestroyCalls(r.cr.al, p, sz - new_size, sz)]

ResizeReads(cr, h, new_size) == ReserveReads(cr, h, new_size * 2)

reserve(c, new_capacity) ==
    /\ ~halted /\ Alive(c) /\ CanAllocate
    /\ \E vals \in ReserveReads(con[c], heap, new_capacity) :
         LET r == Reserve(con[c], heap, new_capacity, vals) IN
            /\ con' = [con EXCEPT ![c] = r.cr]
            /\ heap' = r.h
            /\ calls' = r.calls
            /\ MayStop(r.ub)
    /\ lastOp' = Op("reserve", c, c, new_capacity, 0)
    /\ UNCHANGED <<assigned, copyOf>>

resize(c, new_size, value) ==
    /\ ~halted /\ Alive(c) /\ CanAllocate
    /\ \E vals \in ResizeReads(con[c], heap, new_size) :
         LET r == Resize(con[c], heap, new_size, value, vals) IN
            /\ con' = [con EXCEPT ![c] = r.cr]
            /\ heap' = r.h
            /\ calls' = r.calls
            /\ MayStop(r.ub)
    /\ lastOp' = Op("resize", c, c, new_size, value)
    /\ UNCHANGED <<assigned, copyOf>>

\* ---- assignment

\* Both operator= bodies end without a return statement: flowing off the end
\* of a function that returns a reference is undefined.
FlowsOffTheEnd == MayStop(TRUE)

\* the assignments a run makes are counted and bounded
CanAssign == assigned < MaxAssigns
Assigned == assigned' = assigned + 1

\* std::copy(right.first, right.second, first): each value is assigned to the
\* object in the destination slot; assigning does not start a lifetime
copy(h, p, vals) ==
    IF Len(vals) = 0 THEN h
    ELSE [h EXCEPT ![p].slots =
            [i \in DOMAIN @ |-> IF i <= Len(vals) /\ @[i].st = "live"
                                THEN LiveSlot(vals[i]) ELSE @[i]]]

\* ExpandableArray& operator=(const ExpandableArray& right)
CopyAssign(c, right) ==
    /\ ~halted /\ Alive(c) /\ Alive(right) /\ CanAssign
    /\ (con[right].size > con[c].size) => CanAllocate
    /\ \E grown \in
            IF con[right].size > con[c].size
            THEN {Resize(con[c], heap, con[right].size, DefaultValue, vals) :
                    vals \in ResizeReads(con[c], heap, con[right].size)}
            ELSE {[cr |-> con[c], ub |-> FALSE, h |-> heap, calls |-> <<>>]} :
         \E rvals \in ReadChoices(grown.h, con[right].first, con[right].size) :
            /\ heap' = copy(grown.h, grown.cr.first, rvals)
            /\ con' = [con EXCEPT ![c] = [grown.cr EXCEPT !.size = Len(rvals)]]
            /\ calls' = grown.calls
                          \o ReadCalls(con[right].first, Len(rvals))
                          \o AssignCalls(grown.cr.first, Len(rvals))
    /\ lastOp' = Op("copy_assign", c, right, con[right].size, 0)
    /\ FlowsOffTheEnd
    /\ Assigned
    /\ UNCHANGED copyOf

\* move assignment that leaves m_capacity as it was
MoveAssignKeepsCapacity(own, rights) == own

\* the capacity move assignment records: m_capacity = right.m_capacity
MoveAssignCapacity(own, rights) == rights

\* ExpandableArray& operator=(ExpandableArray&& right)
MoveAssign(c, right) ==
    /\ ~halted /\ Alive(c) /\ Alive(right) /\ CanAssign
    /\ LET c1 == [con EXCEPT ![c].first = con[right].first,
                             ![c].size = con[right].size]
           c2 == [c1 EXCEPT ![right] = MovedFrom(c1[right])]
       IN con' = [c2 EXCEPT ![c].cap = MoveAssignCapacity(c2[c].cap, c2[right].cap)]
    /\ calls' = <<>>
    /\ lastOp' = Op("move_assign", c, right, con[right].size, 0)
    /\ UNCHANGED heap
    /\ FlowsOffTheEnd
    /\ Assigned
    /\ UNCHANGED copyOf

Next ==
    \/ \E c \in Containers, al \in Allocators : DefaultConstruct(c, al)
    \/ \E c \in Containers, n \in Counts, v \in Values, al \in Allocators :
          SizedConstruct(c, n, v, al)
    \/ \E c \in Containers, vals \in Ranges, al \in Allocators : RangeConstruct(c, vals, al)
    \/ \E c \in Containers, right \in Containers : CopyConstruct(c, right)
    \/ \E c \in Containers, right \in Containers : MoveConstruct(c, right)
    \/ \E c \in Containers, vals \in Ranges, al \in Allocators : ListConstruct(c, vals, al)
    \/ \E c \in Containers : Destroy(c)
    \/ \E c \in Containers, k \in Capacities : reserve(c, k)
    \/ \E c \in Containers, n \in Counts, v \in AllValues : resize(c, n, v)
    \/ \E c \in Containers, right \in Containers : CopyAssign(c, right)
    \/ \E c \in Containers, right \in Containers : MoveAssign(c, right)

Spec == Init /\ [][Next]_vars

\* ---- what the claims speak of

\* position i of [first, second) of container c, in container states cs and heap h
SlotAt(cs, h, c, i) == h[cs[c].first].slots[i]

\* the first k elements of c are, after the step, the objects they were:
\* alive and with the value they had
KeepsFirst(c, k) ==
    \A i \in 1..k :
        SlotAt(con, heap, c, i).st = "live" =>
            SlotAt(con', heap', c, i) = SlotAt(con, heap, c, i)

\* container c is, after the step, what it was, and so is its buffer
Untouched(c) ==
    /\ con'[c] = con[c]
    /\ con[c].first # nullptr => heap'[con[c].first] = heap[con[c].first]

\* C1: every container has a recorded capacity of at least size(), that is
\* begin <= end <= begin + capacity, after every operation.
CapacityAtLeastSize ==
    \A c \in Containers : Alive(c) => 0 <= con[c].size /\ con[c].size <= con[c].cap

\* C1 witness: a copy assignment has grown its destination to a source of
\* two elements.
CapacityAtLeastSizeWitness ==
    /\ lastOp.op = "copy_assign"
    /\ lastOp.s < lastOp.n
    /\ con[lastOp.c].size = 2
    /\ con[lastOp.c].cap >= 2

\* every container that was constructed has been destroyed
AllContainersGone ==
    /\ \A c \in Containers : con[c].st # "alive"
    /\ \E c \in Containers : con[c].st = "destroyed"

\* C2: once every container that was constructed has been destroyed, every
\* buffer has been deallocated exactly once, no object was left alive in a
\* buffer (each constructed element was destroyed) and destroy never ran on
\* a slot without a living object (no element was destroyed twice).
DestroyedExactlyOnce ==
    AllContainersGone =>
        \A p \in 1..Len(heap) :
            /\ heap[p].frees = 1
            /\ heap[p].leaked = 0
            /\ heap[p].twice = 0

\* C3: resize(n, value) on a container of size() = s < n leaves size() = n,
\* the first s elements as they were and in order, and slots s .. n-1 living
\* copies of value.
ResizeGrowStep ==
    LET c == lastOp'.c
        n == lastOp'.n
        s == lastOp'.s
    IN (lastOp'.op = "resize" /\ s < n) =>
          /\ con'[c].size = n
          /\ KeepsFirst(c, s)
          /\ \A i \in (s + 1)..n : SlotAt(con', heap', c, i) = LiveSlot(lastOp'.v)

ResizeGrows == [][ResizeGrowStep]_vars

\* C4: resize(n) on a container of size() = s > n leaves size() = n, the
\* first n elements alive, as they were and in order, and no living element
\* at the positions n .. s-1 it had to destroy.
ResizeShrinkStep ==
    LET c == lastOp'.c
        n == lastOp'.n
        s == lastOp'.s
    IN (lastOp'.op = "resize" /\ n < s) =>
          /\ con'[c].size = n
          /\ KeepsFirst(c, n)
          /\ \A i \in 1..n : SlotAt(con', heap', c, i).st # "dead"
          /\ \A i \in DOMAIN heap'[con'[c].first].slots :
                i > n => SlotAt(con', heap', c, i).st # "live"

ResizeShrinks == [][ResizeShrinkStep]_vars

\* C5: reserve(k) with k >= size() leaves size() as it was, every element
\* present in the new buffer at its position and with its value, and the
\* recorded capacity k.
ReserveKeepsStep ==
    LET c == lastOp'.c
        k == lastOp'.n
        s == lastOp'.s
    IN (lastOp'.op = "reserve" /\ k >= s) =>
          /\ con'[c].size = s
          /\ con'[c].cap = k
          /\ con'[c].first # con[c].first
          /\ KeepsFirst(c, s)
          /\ \A i \in 1..s : SlotAt(con', heap', c, i).st = "live"

ReservePreserves == [][ReserveKeepsStep]_vars

\* C5 witness: reserve(3) has run on a container holding 1, 2.
ReservePreservesWitness ==
    /\ lastOp.op = "reserve" /\ lastOp.n = 3 /\ lastOp.s = 2
    /\ SlotAt(con, heap, lastOp.c, 1) = LiveSlot(1)
    /\ SlotAt(con, heap, lastOp.c, 2) = LiveSlot(2)

\* C6: after move construction, and after move assignment into another
\* container, the source has size() = 0 and begin = end = null and owns no
\* buffer, and the destination holds the buffer, and so the elements in
\* their order, that the source held.
MoveStep ==
    LET c == lastOp'.c
        r == lastOp'.src
    IN (lastOp'.op \in {"move", "move_assign"} /\ c # r) =>
          /\ con'[r].first = nullptr
          /\ con'[r].size = 0
          /\ con'[c].first = con[r].first
          /\ con'[c].size = con[r].size
          /\ heap' = heap
          /\ \A d \in Containers :
                (Alive(d)' /\ d # c) => con'[d].first # con[r].first \/ con[r].first = nullptr

CopyStep ==
    LET c == lastOp'.c
        r == lastOp'.src
    IN lastOp'.op = "copy" =>
          /\ con'[c].size = con[r].size
          /\ con'[c].first \notin {nullptr} \cup {con[d].first : d \in Containers}
          /\ \A i \in 1..con[r].size :
                /\ SlotAt(con', heap', c, i).st = "live"
                /\ SlotAt(con, heap, r, i).st = "live" =>
                      SlotAt(con', heap', c, i) = SlotAt(con, heap, r, i)
          /\ Untouched(r)

OnCopyStep ==
    \A c \in Containers, o \in Containers :
        ( /\ copyOf[c] = o /\ Alive(o) /\ c # o
          /\ lastOp'.c = c
          /\ ~(lastOp'.op = "move_assign" /\ lastOp'.src = o) ) => Untouched(o)

CopyAssignStep ==
    LET c == lastOp'.c
        r == lastOp'.src
    IN lastOp'.op = "copy_assign" =>
          /\ con'[c].size = con[r].size
          /\ \A i \in 1..con[r].size :
                SlotAt(con, heap, r, i).st = "live" =>
                    SlotAt(con', heap', c, i) = SlotAt(con, heap, r, i)
          /\ \A i \in (con[r].size + 1)..con[c].size :
                SlotAt(con, heap, c, i).st = "live" =>
                    \/ heap'[con[c].first].slots = <<>>
                    \/ heap'[con[c].first].slots[i].st # "live"
          /\ c # r => Untouched(r)

CopyAssignMatches == [][CopyAssignStep]_vars

\* C9: a container that owns a buffer records as capacity the slot count
\* its allocate call was given, and every buffer that was deallocated was
\* deallocated with the slot count it was allocated with.
CapacityIsAllocated ==
    /\ \A c \in Containers :
          (Alive(c) /\ con[c].first # nullptr) => con[c].cap = heap[con[c].first].n
    /\ \A p \in 1..Len(heap) : heap[p].frees > 0 => heap[p].dn = heap[p].n

\* C10: sized construction with count n and value v gives size() = n, a
\* capacity, recorded and allocated, of at least 2n, and n living slots equal
\* to v.
SizedConstructs ==
    lastOp.op = "sized" =>
        LET c == lastOp.c
            n == lastOp.n
        IN /\ con[c].size = n
           /\ con[c].cap >= 2 * n
           /\ heap[con[c].first].n >= 2 * n
           /\ \A i \in 1..n : SlotAt(con, heap, c, i) = LiveSlot(lastOp.v)

\* C10 witness: a container constructed with two copies of 2.
SizedConstructsWitness ==
    /\ lastOp.op = "sized" /\ lastOp.n = 2 /\ lastOp.v = 2
    /\ con[lastOp.c].size = 2
    /\ SlotAt(con, heap, lastOp.c, 2) = LiveSlot(2)

\* C11: in every container that owns a buffer, every slot of [begin, end)
\* holds a constructed element and every slot of [end, begin + capacity) is
\* unconstructed.
LiveRangeIsConstructed ==
    \A c \in Containers :
        (Alive(c) /\ con[c].first # nullptr) =>
            \A i \in DOMAIN heap[con[c].first].slots :
                /\ i <= con[c].size => SlotAt(con, heap, c, i).st = "live"
                /\ (con[c].size < i /\ i <= con[c].cap) =>
                        SlotAt(con, heap, c, i).st # "live"

\* ---- containers constructed with allocators that differ

\* two allocator instances that do not compare equal
AllocatorsTwo == {1, 2}

NextTwo ==
    \/ \E c \in Containers, al \in AllocatorsTwo : DefaultConstruct(c, al)
    \/ \E c \in Containers, n \in Counts, v \in Values, al \in AllocatorsTwo :
          SizedConstruct(c, n, v, al)
    \/ \E c \in Containers, vals \in Ranges, al \in AllocatorsTwo :
          RangeConstruct(c, vals, al)
    \/ \E c \in Containers, right \in Containers : CopyConstruct(c, right)
    \/ \E c \in Containers, right \in Containers : MoveConstruct(c, right)
    \/ \E c \in Containers, vals \in Ranges, al \in AllocatorsTwo :
          ListConstruct(c, vals, al)
    \/ \E c \in Containers : Destroy(c)
    \/ \E c \in Containers, k \in Capacities : reserve(c, k)
    \/ \E c \in Containers, n \in Counts, v \in AllValues : resize(c, n, v)
    \/ \E c \in Containers, right \in Containers : CopyAssign(c, right)
    \/ \E c \in Containers, right \in Containers : MoveAssign(c, right)

SpecAllocators == Init /\ [][NextTwo]_vars

\* C12: move assignment dst = std::move(src), dst distinct from src, makes
\* the buffer, the recorded capacity and the allocator of dst those src had,
\* and leaves src with begin = end = null.
MoveAssignStep ==
    LET c == lastOp'.c
        r == lastOp'.src
    IN (lastOp'.op = "move_assign" /\ c # r) =>
          /\ con'[c].first = con[r].first
          /\ con'[c].size = con[r].size
          /\ con'[c].cap = con[r].cap
          /\ con'[c].al = con[r].al
          /\ con'[r].first = nullptr
          /\ con'[r].size = 0

MoveAssignAdopts == [][MoveAssignStep]_vars

\* C13: assigning a container to itself, by copy assignment or by move
\* assignment, leaves its buffer, size(), capacity and elements unchanged.
SelfAssignStep ==
    (lastOp'.op \in {"copy_assign", "move_assign"} /\ lastOp'.c = lastOp'.src) =>
        /\ Untouched(lastOp'.c)
        /\ heap' = heap

SelfAssignIsNoOp == [][SelfAssignStep]_vars

\* the slot positions, in the order of the calls, that the calls named what
\* were made on in buffer p
Positions(cs, what, p) ==
    LET sel == SelectSeq(cs, LAMBDA e : e.call = what /\ e.p = p)
    IN [i \in 1..Len(sel) |-> sel[i].n]

UpTo(n) == [i \in 1..n |-> i]

\* C14: reserve(k) with k < size() copy-constructs exactly the first k
\* elements into a fresh buffer of k slots, destroys all size() elements of
\* the old buffer once each, deallocates the old buffer, and leaves
\* size() = k and capacity = k with the first k elements as they were.
ReserveTruncateStep ==
    LET c == lastOp'.c
        k == lastOp'.n
        s == lastOp'.s
        old == con[c].first
        new == con'[c].first
    IN (lastOp'.op = "reserve" /\ k < s) =>
          /\ new = Len(heap) + 1
          /\ Head(calls') = Call("allocate", con[c].al, new, k)
          /\ Len(heap'[new].slots) = k
          /\ Positions(calls', "read", old) = UpTo(k)
          /\ Positions(calls', "construct", new) = UpTo(k)
          /\ Positions(calls', "destroy", old) = UpTo(s)
          /\ Positions(calls', "destroy", new) = <<>>
          /\ Len(SelectSeq(calls', LAMBDA e : e.call = "deallocate")) = 1
          /\ calls'[Len(calls')].call = "deallocate" /\ calls'[Len(calls')].p = old
          /\ heap'[old].frees = 1
          /\ con'[c].size = k
          /\ con'[c].cap = k
          /\ KeepsFirst(c, k)
          /\ \A i \in 1..k : SlotAt(con', heap', c, i).st = "live"

ReserveTruncates == [][ReserveTruncateStep]_vars

\* C14 witness: reserve(1) has run on a container that held 1, 2 and holds 1.
ReserveTruncatesWitness ==
    /\ lastOp.op = "reserve" /\ lastOp.n = 1 /\ lastOp.s = 2
    /\ con[lastOp.c].size = 1
    /\ SlotAt(con, heap, lastOp.c, 1) = LiveSlot(1)
    /\ Len(calls) = 6

\* the two states of a constructed container: it holds a buffer that is
\* allocated and that no other container holds, or it was emptied by a move
HoldsBuffer(cs, h, c) ==
    /\ cs[c].first # nullptr
    /\ h[cs[c].first].frees = 0
    /\ \A d \in Containers \ {c} : cs[d].st = "alive" => cs[d].first # cs[c].first

Emptied(cs, c) == cs[c].first = nullptr /\ cs[c].size = 0

\* container c enters the emptied state in this step
BecomesEmptied(c) ==
    /\ con'[c].st = "alive" /\ Emptied(con', c)
    /\ ~(con[c].st = "alive" /\ Emptied(con, c))

IsMoveSource(c) == lastOp'.op \in {"move", "move_assign"} /\ lastOp'.src = c

\* c takes, by move construction or move assignment, a source that is
\* already emptied
TakesEmptiedSource(c) ==
    /\ lastOp'.op \in {"move", "move_assign"} /\ lastOp'.c = c
    /\ Emptied(con, lastOp'.src)

\* C15: a container either holds a valid owned buffer or is emptied by move;
\* the only transition into the emptied state is being the source of a move
\* construction or move assignment, and every other operation started in the
\* valid state ends in the valid state.
TwoStatesStep ==
    \A c \in Containers :
        con'[c].st = "alive" =>
            /\ HoldsBuffer(con', heap', c) \/ Emptied(con', c)
            /\ BecomesEmptied(c) => IsMoveSource(c)

TwoStates == [][TwoStatesStep]_vars

\* C15 as amended: the transitions into the emptied state are being the
\* source of a move and taking, by move construction or move assignment, a
\* source that is already emptied; every other operation started in the valid
\* state ends in the valid state.
TwoStatesAmendedStep ==
    \A c \in Containers :
        con'[c].st = "alive" =>
            /\ HoldsBuffer(con', heap', c) \/ Emptied(con', c)
            /\ BecomesEmptied(c) => IsMoveSource(c) \/ TakesEmptiedSource(c)

TwoStatesAmended == [][TwoStatesAmendedStep]_vars

\* C15 witness: a container that held a buffer was move-assigned an emptied
\* source and is emptied itself.
TwoStatesAmendedWitness ==
    /\ lastOp.op = "move_assign" /\ lastOp.c # lastOp.src
    /\ lastOp.s > 0
    /\ Emptied(con, lastOp.c)
    /\ Emptied(con, lastOp.src)

\* C16: destroying a container that was emptied by a move issues no destroy
\* call and no deallocate call to the allocator.
MovedFromDestroyStep ==
    (lastOp'.op = "destroy" /\ Emptied(con, lastOp'.c)) => calls' = <<>>

MovedFromDestroyIsNoOp == [][MovedFromDestroyStep]_vars

\* ---- allocate fails

\* reserve that has destroyed the old elements by the time allocate throws
AllocateThrowsAfterDestroy(cr, h) ==
    [cr |-> cr, h |-> destroy_range(h, cr.first, 0, cr.size)]

\* allocator_traits_type::allocate throws out of reserve: it is the first
\* statement of the body and nothing catches, so the members and the heap are
\* as they were
AllocateThrows(cr, h) == [cr |-> cr, h |-> h]

\* the exception leaves operation name on container c; the request that
\* failed is whatever the caller passed and nothing of it is kept
Throws(name, c, right) ==
    /\ ~halted /\ Alive(c)
    /\ LET r == AllocateThrows(con[c], heap) IN
        /\ con' = [con EXCEPT ![c] = r.cr]
        /\ heap' = r.h
    /\ calls' = <<Call("bad_alloc", con[c].al, nullptr, 0)>>
    /\ lastOp' = Op(name, c, right, 0, 0)
    /\ UNCHANGED <<halted, copyOf>>

\* reserve(new_capacity) when its allocate throws
reserve_throws(c) ==
    /\ Throws("reserve_throws", c, c)
    /\ UNCHANGED assigned

\* resize(new_size) when the allocate of its reserve(new_size * 2) throws
resize_throws(c) ==
    /\ Throws("resize_throws", c, c)
    /\ UNCHANGED assigned

\* operator=(const ExpandableArray&) when the allocate of its resize throws;
\* the exception leaves the body before its end
CopyAssign_throws(c, right) ==
    /\ Alive(right) /\ CanAssign
    /\ con[right].size > con[c].size
    /\ Throws("copy_assign_throws", c, right)
    /\ Assigned

NextThrows ==
    \/ Next
    \/ \E c \in Containers : reserve_throws(c)
    \/ \E c \in Containers : resize_throws(c)
    \/ \E c \in Containers, right \in Containers : CopyAssign_throws(c, right)

SpecThrows == Init /\ [][NextThrows]_vars

\* container c of states cs is one whose destructor destroys each live
\* element once and deallocates its buffer once
Destructible(cs, h, c) ==
    /\ DeallocateDefined(h, cs[c].al, cs[c].first, cs[c].cap)
    /\ cs[c].size <= Len(h[cs[c].first].slots)
    /\ LET p == cs[c].first
           after == deallocate(destroy_range(h, p, 0, cs[c].size), p, cs[c].cap)
       IN /\ after[p].frees = 1
          /\ after[p].leaked = 0
          /\ after[p].twice = 0

\* C17: when allocate fails in reserve, resize or copy assignment the
\* exception reaches the caller and the container is as before the call: its
\* buffer, size, capacity and elements are unchanged, and a container whose
\* destruction destroyed each live element once and deallocated its buffer
\* once is still such a container.
AllocateFailureStep ==
    (lastOp'.op \in {"reserve_throws", "resize_throws", "copy_assign_throws"}) =>
        /\ con' = con
        /\ heap' = heap
        /\ halted' = halted
        /\ Len(calls') = 1 /\ calls'[1].call = "bad_alloc"
        /\ Destructible(con, heap, lastOp'.c) => Destructible(con', heap', lastOp'.c)

AllocateFailureKeepsState == [][AllocateFailureStep]_vars

\* C17 witness: a reserve on a destructible container of two elements has
\* thrown and the container still holds its two elements.
AllocateFailureKeepsStateWitness ==
    /\ lastOp.op = "reserve_throws"
    /\ Destructible(con, heap, lastOp.c)
    /\ con[lastOp.c].size = MaxLen
    /\ \A i \in 1..MaxLen : SlotAt(con, heap, lastOp.c, i).st = "live"

\* the calls that touch a slot of a buffer
Touches == {"read", "construct", "destroy", "assign"}

\* C18: every read, construction and destruction of an element of a buffer
\* comes before the buffer's deallocation: an operation that deallocates a
\* buffer has by then destroyed the elements of [begin, end) in forward
\* order, makes no call on a slot of that buffer afterwards, and no operation
\* makes a call on a slot of a buffer deallocated by an earlier operation.
TouchBeforeFreeStep ==
    /\ \A j \in DOMAIN calls' :
          (calls'[j].call \in Touches /\ calls'[j].p \in DOMAIN heap) =>
              heap[calls'[j].p].frees = 0
    /\ \A i \in DOMAIN calls' :
          (calls'[i].call = "deallocate" /\ calls'[i].p # nullptr) =>
              LET c == lastOp'.c
                  p == calls'[i].p
              IN /\ p = con[c].first
                 /\ Positions(SubSeq(calls', 1, i - 1), "destroy", p) = UpTo(con[c].size)
                 /\ \A j \in DOMAIN calls' :
                       (j > i /\ calls'[j].call \in Touches) => calls'[j].p # p

TouchBeforeFree == [][TouchBeforeFreeStep]_vars

\* C18 witness: a reserve on a container of two elements has read them,
\* destroyed the first, then the second, and then deallocated the old buffer.
TouchBeforeFreeWitness ==
    /\ lastOp.op = "reserve" /\ lastOp.s = MaxLen /\ lastOp.n >= MaxLen
    /\ LET k == Len(calls)
           old == calls[k].p
       IN /\ k = 3 * MaxLen + 2
          /\ calls[k].call = "deallocate"
          /\ old # nullptr /\ heap[old].frees = 1
          /\ Positions(calls, "read", old) = UpTo(MaxLen)
          /\ \A i \in 1..MaxLen :
                calls[k - 1 - MaxLen + i] = Call("destroy", calls[k].al, old, i)

====
